---- MODULE Spec2Model ----
(***************************************************************************)
(* A model of the Kaggle-Pneumothorax-Seg training and ensembling code:    *)
(*   - the two-stage trainer of solver.py (class Train): train,            *)
(*     train_stage2, load_checkpoint, save_checkpoint, validation;         *)
(*   - the ensemble drivers of create_submission.py and demo_on_val.py     *)
(*     (Test.test_model): classification gate, vote and average fusion;    *)
(*   - the Dice of validation (Train.dice_overall, Train.validation) and   *)
(*     the threshold search (Train.choose_threshold) of solver.py.         *)
(*                                                                         *)
(* Abstractions.  A validation Dice is a level 0..MaxDice (level 0 is the  *)
(* Dice 0.0 the trainer starts from; only the order of the values is read  *)
(* by the code).  Model weights are the number of optimizer steps applied  *)
(* to the freshly built network.  A learning rate is a symbolic value: a   *)
(* configured rate and the cosine annealings (t of T) applied to it.  A    *)
(* probability is a number of tenths, 0..10, and arithmetic on             *)
(* probabilities is exact.  A file name is the list of the pieces that     *)
(* str.split('_') gives for it.  A Dice computed by dice_overall is an     *)
(* exact rational number; a threshold of the search is a number of         *)
(* hundredths and the validation set of the search is its mean-Dice curve. *)
(***************************************************************************)
EXTENDS Integers, Sequences, FiniteSets, TLC

(***************************************************************************)
(* Bounds of the trainer model.                                            *)
(***************************************************************************)
\* fold indices are 0..MaxFold
MaxFold == 1
\* len(self.train_loader) is 1..NumBatches
NumBatches == 2
\* validation Dice levels are 0..MaxDice
MaxDice == 2
\* number of times the training process is started again on the same disk
MaxRestarts == 1
\* the number of epochs of each stage
MaxEpoch == 2

Folds == 0..MaxFold
DiceVals == 0..MaxDice
Stages == {1, 2}

\* config.epoch_stage1, config.epoch_stage2
epoch_stage1 == MaxEpoch
epoch_stage2 == MaxEpoch
\* config.accumulation_steps
accumulation_steps == 2

epoch_stage(stg) == IF stg = 1 THEN epoch_stage1 ELSE epoch_stage2

(***************************************************************************)
(* Model types (the branches of build_model), each as the pieces           *)
(* str.split('_') gives for its name.                                      *)
(***************************************************************************)
ModelTypes == { <<"U", "Net">>, <<"unet", "resnet34">>, <<"linknet">> }

\* '%s_%d_%d.pth' % (model_type, stage, index), and the '_best.pth' name
CkptName(mt, stg, idx, best) ==
    IF best
    THEN mt \o <<ToString(stg), ToString(idx), "best.pth">>
    ELSE mt \o <<ToString(stg), ToString(idx) \o ".pth">>

\* self.resume is falsy (no resume requested)
NoResume == << >>

\* no file at a path; a file whose write was cut short
NoFile == [kind |-> "none"]
Partial == [kind |-> "partial"]

\* the network build_model returns, before any optimizer step
W0 == 0

\* learning rates: config.lr, config.lr_stage2
config_lr == [name |-> "lr", ann |-> << >>]
lr_stage2 == [name |-> "lr_stage2", ann |-> << >>]

\* optim.Adam(params, rate): a new optimizer, no step taken
Adam(rate) == [initial_lr |-> rate, steps |-> 0]
NoOptimizer == [initial_lr |-> config_lr, steps |-> -1]

VARIABLES
    \* configuration of the Train object; epoch_stage2_accumulation is the
    \* number K of final stage-2 epochs that accumulate gradients;
    \* len_train_loader is the number of batches of self.train_loader
    model_type, index, resume, epoch_stage2_accumulation, len_train_loader,
    \* the files of save_path: file name -> checkpoint, NoFile or Partial
    fs,
    \* position of the training process, the methods called so far on the
    \* Train object, the number of process starts after the first
    pc, called, restarts,
    \* fields of the Train object
    unet, optimizer, lr, start_epoch, max_dice,
    \* locals of train / train_stage2
    epoch, i, sched, grad, dice_mean, is_best, state,
    \* history: the validation Dice of each epoch of the current call, the
    \* epoch numbers the current call has begun, in order, and the optimizer
    \* steps taken since the head of the epoch
    seen, ran, steps_in_epoch,
    \* history: the epoch field of the checkpoint the current call was asked
    \* to resume its own stage from (-1: the call was given no such checkpoint)
    resumed_at

trainVars == << model_type, index, resume, epoch_stage2_accumulation,
                len_train_loader, fs, pc,
                called, restarts,
                unet, optimizer, lr, start_epoch, max_dice,
                epoch, i, sched, grad, dice_mean, is_best, state, seen, ran,
                steps_in_epoch, resumed_at >>

(***************************************************************************)
(* Bounds of the ensemble model.                                           *)
(***************************************************************************)
\* the fold lists n_splits are [0], [0, 1], ..., [0, ..., MaxSplits - 1]
MaxSplits == 5
\* pixels of an image (self.image_size squared)
NumPixels == 2
\* images of the test set (len(sample_df), len(images_path))
NumImages == 1

Pixels == 1..NumPixels
Images == 1..NumImages
EnsFolds == 0..(MaxSplits - 1)
\* values of a pixel of a TTA prediction, in tenths
Levels == {1, 9}
ZeroMask == [p \in Pixels |-> 0]
NoMask == [p \in Pixels |-> -1]
NoMissing == << >>

\* thresholds_classify, thresholds_seg (per fold) and average_threshold, in tenths
thresholds_classify == [f \in EnsFolds |-> 5]
thresholds_seg == [f \in EnsFolds |-> 5]
average_threshold == 5

VARIABLES
    \* which script runs: "create_submission" or "demo_on_val"
    driver,
    \* arguments of test_model: TRUE is the average strategy, FALSE the vote
    seg_average_vote, n_splits, less_than_sum,
    \* the one weight file that does not exist, <<role, fold>>, or NoMissing
    missing,
    \* position in test_model; position in n_splits; image index
    ens_pc, k, img,
    \* the folds whose weights self.unet and seg_unet hold (-1: none)
    models,
    \* accumulators: preds (create_submission), pred_nfolds (demo_on_val)
    preds, pred_nfolds,
    \* local of the last (fold, image): the pred added to the accumulator
    pred,
    \* results: the fused mask of each image, and whether submission.csv exists
    final, submission_written,
    \* history: what each fold added for each image, in order; the
    \* (fold, image) pairs the segmentation model was run on; the pairs
    \* whose binarized classification prediction had fewer positive pixels
    \* than less_than_sum[fold], or none
    contribs, seg_invoked, gate_closed

ensVars == << driver, seg_average_vote, n_splits, less_than_sum, missing,
              ens_pc, k, img, models, preds, pred_nfolds, pred,
              final, submission_written, contribs, seg_invoked, gate_closed >>

(***************************************************************************)
(* Bounds of the evaluation model: the Dice of validation and the          *)
(* threshold search.                                                       *)
(***************************************************************************)
\* samples of a validation batch (preds.shape[0])
BatchSize == 2
\* batches of the validation loader (len(self.valid_loader))
NumValBatches == 2
\* the mean Dice of the threshold search falls by 1..MaxSlope thousandths
\* per hundredth of threshold on either side of its peak
MaxSlope == 3

\* binary masks of an image; a batch of them
Masks == [Pixels -> {0, 1}]
Batches == [1..BatchSize -> Masks]
\* a rational number num / den is the pair <<num, den>> in lowest terms
Zero == << 0, 1 >>
One == << 1, 1 >>

VARIABLES
    \* validation(): position, batches done, the batch (binarized output and
    \* masks), what dice_overall returned for it (one value per sample), the
    \* batch's dice, dice_sum, the returned dice_mean
    val_pc, val_i, net_output_flat_sign, masks_flat, dice_samples, dice,
    dice_sum, val_dice_mean,
    \* choose_threshold(): position; the validation set, as the slopes of its
    \* mean Dice on the two sides of the peak; position in the threshold
    \* list; dices_ and best_thrs_ of the coarse phase; dices, best_thrs and
    \* score of the fine phase (thresholds in hundredths, Dice in thousandths)
    thr_pc, rise, fall, th_k, dices_, best_thrs_, dices, best_thrs, score,
    \* GetLoss.forward(input, target): position; the logits and the binary
    \* target of one sample; the configuration of the loss (sigmoid_flag,
    \* loss_funs, loss_weights); position in loss_funs; the running loss; what
    \* each loss_fun returned so far
    loss_pc, input, target, sigmoid_flag, loss_funs, loss_weights, loss_index,
    loss, loss_terms,
    \* the two test_model on the same images and weights: position; what
    \* self.tta returned for the classification and the segmentation model of
    \* a fold on an image; create_submission's position in n_splits, image,
    \* preds, the folds that added to an image, the fused masks; the same of
    \* demo_on_val, with its pred_nfolds
    pair_pc, tta_cla, tta_seg, sub_k, sub_img, sub_preds, sub_n, sub_final,
    demo_k, demo_img, demo_pred_nfolds, demo_n, demo_final

valVars == << val_pc, val_i, net_output_flat_sign, masks_flat, dice_samples,
              dice, dice_sum, val_dice_mean >>
thrVars == << thr_pc, rise, fall, th_k, dices_, best_thrs_, dices, best_thrs, score >>
lossVars == << loss_pc, input, target, sigmoid_flag, loss_funs, loss_weights,
               loss_index, loss, loss_terms >>
pairVars == << pair_pc, tta_cla, tta_seg, sub_k, sub_img, sub_preds, sub_n, sub_final,
               demo_k, demo_img, demo_pred_nfolds, demo_n, demo_final >>
evalVars == << valVars, thrVars, lossVars, pairVars >>

vars == << trainVars, ensVars, evalVars >>

\* the stage the running (or last) call trains: 1 in train, 2 in train_stage2
CurStage == IF called = << >> THEN 1 ELSE called[Len(called)]

FileNames == { CkptName(model_type, s, index, b) : s \in Stages, b \in BOOLEAN }
LatestName(stg) == CkptName(model_type, stg, index, FALSE)
BestName(stg) == CkptName(model_type, stg, index, TRUE)

IsCheckpoint(c) == c # NoFile /\ c # Partial

\* the epoch of the checkpoint that self.resume names, when it is a
\* checkpoint save_checkpoint wrote for stage stg of this model and fold
ResumePoint(stg) ==
    IF resume \in {LatestName(stg), BestName(stg)} /\ IsCheckpoint(fs[resume])
    THEN fs[resume].epoch
    ELSE -1

(***************************************************************************)
(* lr_scheduler.CosineAnnealingLR(optimizer, T): get_lr() after t steps.   *)
(***************************************************************************)
get_lr(sc) == [name |-> sc.base.name, ann |-> Append(sc.base.ann, <<sc.t, sc.T>>)]

\* the factor (1 + cos(pi * t / T)) / 2 of CosineAnnealingLR (eta_min = 0),
\* in hundredths, for the horizons T of the model (T <= 5)
CosFactor(t, T) ==
    IF t = 0 THEN 100
    ELSE IF t = T THEN 0
    ELSE IF 2 * t = T THEN 50
    ELSE IF T = 3 THEN (IF t = 1 THEN 75 ELSE 25)
    ELSE IF T = 4 THEN (IF t = 1 THEN 85 ELSE 15)
    ELSE IF t = 1 THEN 90
    ELSE IF t = 2 THEN 65
    ELSE IF t = 3 THEN 35
    ELSE 10

RECURSIVE AnnealProduct(_)
\* the product of the factors of a list of annealings, in hundredths each
AnnealProduct(ann) ==
    IF ann = << >> THEN 1
    ELSE CosFactor(ann[1][1], ann[1][2]) * AnnealProduct(Tail(ann))

RECURSIVE Hundreds(_)
Hundreds(n) == IF n = 0 THEN 1 ELSE 100 * Hundreds(n - 1)

\* two learning rates are the same number: the same configured rate times
\* the same product of factors
SameRate(a, b) ==
    /\ a.name = b.name
    /\ AnnealProduct(a.ann) * Hundreds(Len(b.ann))
          = AnnealProduct(b.ann) * Hundreds(Len(a.ann))

\* the rate a stage is configured with (lines 129, 209)
ConfiguredLr(stg) == IF stg = 1 THEN config_lr ELSE lr_stage2

(***************************************************************************)
(* Train.__init__: the state of a newly constructed Train object.          *)
(***************************************************************************)
NewObject ==
    /\ pc' = "new"
    /\ called' = << >>
    /\ unet' = W0
    /\ optimizer' = NoOptimizer
    /\ lr' = config_lr
    /\ start_epoch' = 0
    /\ max_dice' = 0
    /\ epoch' = 0
    /\ i' = 0
    /\ sched' = [base |-> config_lr, T |-> 0, t |-> 0]
    /\ grad' = {}
    /\ dice_mean' = 0
    /\ is_best' = FALSE
    /\ state' = NoFile
    /\ seen' = << >>
    /\ ran' = << >>
    /\ steps_in_epoch' = 0
    /\ resumed_at' = -1

TrainInit ==
    /\ model_type \in ModelTypes
    /\ index \in Folds
    /\ epoch_stage2_accumulation \in 0..epoch_stage2
    /\ len_train_loader \in 1..NumBatches
    /\ resume \in {NoResume} \cup { CkptName(model_type, s, index, b) : s \in Stages, b \in BOOLEAN }
    /\ fs = [f \in { CkptName(model_type, s, index, b) : s \in Stages, b \in BOOLEAN } |-> NoFile]
    /\ restarts = 0
    /\ pc = "new"
    /\ called = << >>
    /\ unet = W0
    /\ optimizer = NoOptimizer
    /\ lr = config_lr
    /\ start_epoch = 0
    /\ max_dice = 0
    /\ epoch = 0
    /\ i = 0
    /\ sched = [base |-> config_lr, T |-> 0, t |-> 0]
    /\ grad = {}
    /\ dice_mean = 0
    /\ is_best = FALSE
    /\ state = NoFile
    /\ seen = << >>
    /\ ran = << >>
    /\ steps_in_epoch = 0
    /\ resumed_at = -1

\* the ensemble is not running
EnsOff ==
    /\ driver = "none"
    /\ seg_average_vote = TRUE
    /\ n_splits = << >>
    /\ less_than_sum = << >>
    /\ missing = NoMissing
    /\ ens_pc = "off"
    /\ k = 0
    /\ img = 0
    /\ models = [cla |-> -1, seg |-> -1]
    /\ preds = << >>
    /\ pred_nfolds = ZeroMask
    /\ pred = ZeroMask
    /\ final = << >>
    /\ submission_written = FALSE
    /\ contribs = << >>
    /\ seg_invoked = {}
    /\ gate_closed = {}

\* validation() is not being followed batch by batch
ValOff ==
    /\ val_pc = "off"
    /\ val_i = 0
    /\ net_output_flat_sign = << >>
    /\ masks_flat = << >>
    /\ dice_samples = << >>
    /\ dice = Zero
    /\ dice_sum = Zero
    /\ val_dice_mean = Zero

\* choose_threshold() is not running
ThrOff ==
    /\ thr_pc = "off"
    /\ rise = 0
    /\ fall = 0
    /\ th_k = 0
    /\ dices_ = << >>
    /\ best_thrs_ = 0
    /\ dices = << >>
    /\ best_thrs = 0
    /\ score = 0

\* no loss is being computed
LossOff ==
    /\ loss_pc = "off"
    /\ input = << >>
    /\ target = << >>
    /\ sigmoid_flag = FALSE
    /\ loss_funs = << >>
    /\ loss_weights = << >>
    /\ loss_index = 0
    /\ loss = Zero
    /\ loss_terms = << >>

\* the two drivers are not being compared
PairOff ==
    /\ pair_pc = "off"
    /\ tta_cla = << >>
    /\ tta_seg = << >>
    /\ sub_k = 0
    /\ sub_img = 0
    /\ sub_preds = << >>
    /\ sub_n = << >>
    /\ sub_final = << >>
    /\ demo_k = 0
    /\ demo_img = 0
    /\ demo_pred_nfolds = ZeroMask
    /\ demo_n = << >>
    /\ demo_final = << >>

Init == TrainInit /\ EnsOff /\ ValOff /\ ThrOff /\ LossOff /\ PairOff

(***************************************************************************)
(* Train.load_checkpoint(load_optimizer), with opt the optimizer the       *)
(* caller has just built: what it raises and the fields it leaves.         *)
(***************************************************************************)
load_checkpoint(load_optimizer, opt) ==
    LET checkpoint == fs[resume]
        kept == [unet |-> unet, start_epoch |-> start_epoch,
                 max_dice |-> max_dice, lr |-> lr, optimizer |-> opt]
    IN  IF checkpoint = NoFile
        THEN [raised |-> "FileNotFoundError"] @@ kept
        ELSE IF checkpoint = Partial
        THEN [raised |-> "UnpicklingError"] @@ kept
        ELSE [raised |-> "",
              unet |-> checkpoint.state_dict,
              start_epoch |-> checkpoint.epoch,
              max_dice |-> checkpoint.max_dice,
              lr |-> IF load_optimizer THEN checkpoint.lr ELSE lr,
              optimizer |-> IF load_optimizer THEN checkpoint.optimizer ELSE opt]

\* the call raised: the exception is not caught, the process ends
Raise ==
    /\ pc' = "error"
    /\ UNCHANGED << epoch, i, sched, grad, dice_mean, is_best, state, seen,
                    ran, steps_in_epoch >>

\* the scheduler is built on the optimizer and the epoch loop is entered at
\* start (range(start, epoch_stage)); the method returns if the range is empty
EnterLoop(stg, opt, start) ==
    /\ sched' = [base |-> opt.initial_lr, T |-> epoch_stage(stg) - start, t |-> 0]
    /\ epoch' = start
    /\ i' = 0
    /\ seen' = << >>
    /\ ran' = << >>
    /\ steps_in_epoch' = 0
    /\ pc' = IF start < epoch_stage(stg) THEN "epoch" ELSE "idle"
    /\ UNCHANGED << grad, dice_mean, is_best, state >>

(***************************************************************************)
(* Train.train(index), lines 129-146: optimizer, resume, scheduler.        *)
(***************************************************************************)
train ==
    /\ UNCHANGED << ensVars, evalVars >>
    /\ pc = "new"
    /\ called = << >>
    /\ called' = << 1 >>
    /\ resumed_at' = ResumePoint(1)
    /\ UNCHANGED << len_train_loader, epoch_stage2_accumulation, model_type, index, resume, fs, restarts >>
    /\ IF resume # NoResume
       THEN LET r == load_checkpoint(TRUE, Adam(lr)) IN
            /\ unet' = r.unet
            /\ start_epoch' = r.start_epoch
            /\ max_dice' = r.max_dice
            /\ lr' = r.lr
            /\ IF r.raised # ""
               THEN optimizer' = r.optimizer /\ Raise
               ELSE /\ optimizer' = [r.optimizer EXCEPT !.initial_lr = r.lr]
                    /\ EnterLoop(1, optimizer', r.start_epoch)
       ELSE /\ optimizer' = Adam(lr)
            /\ UNCHANGED << unet, start_epoch, max_dice, lr >>
            /\ EnterLoop(1, optimizer', start_epoch)

(***************************************************************************)
(* Train.train_stage2(index), lines 209-238.  self.resume.split('_')[2]    *)
(* is the third piece of the resume name.                                  *)
(***************************************************************************)
train_stage2 ==
    /\ UNCHANGED << ensVars, evalVars >>
    /\ pc \in {"new", "idle"}
    /\ called \in { << >>, << 1 >> }
    /\ called' = Append(called, 2)
    /\ resumed_at' = ResumePoint(2)
    /\ UNCHANGED << len_train_loader, epoch_stage2_accumulation, model_type, index, resume, fs, restarts >>
    /\ IF resume # NoResume
       THEN IF Len(resume) < 3
            THEN \* IndexError
                 /\ optimizer' = Adam(lr_stage2)
                 /\ UNCHANGED << unet, start_epoch, max_dice, lr >>
                 /\ Raise
            ELSE IF resume[3] = "2"
            THEN LET r == load_checkpoint(TRUE, Adam(lr_stage2)) IN
                 /\ unet' = r.unet
                 /\ start_epoch' = r.start_epoch
                 /\ max_dice' = r.max_dice
                 /\ lr' = r.lr
                 /\ IF r.raised # ""
                    THEN optimizer' = r.optimizer /\ Raise
                    ELSE /\ optimizer' = [r.optimizer EXCEPT !.initial_lr = r.lr]
                         /\ EnterLoop(2, optimizer', r.start_epoch)
            ELSE IF resume[3] = "1"
            THEN LET r == load_checkpoint(FALSE, Adam(lr_stage2)) IN
                 /\ unet' = r.unet
                 /\ max_dice' = r.max_dice
                 /\ lr' = r.lr
                 /\ optimizer' = r.optimizer
                 /\ IF r.raised # ""
                    THEN start_epoch' = r.start_epoch /\ Raise
                    ELSE start_epoch' = 0 /\ EnterLoop(2, optimizer', 0)
            ELSE \* neither branch: nothing is loaded, start_epoch is kept
                 /\ optimizer' = Adam(lr_stage2)
                 /\ UNCHANGED << unet, start_epoch, max_dice, lr >>
                 /\ EnterLoop(2, optimizer', start_epoch)
       ELSE /\ optimizer' = Adam(lr_stage2)
            /\ start_epoch' = 0
            /\ UNCHANGED << unet, max_dice, lr >>
            /\ EnterLoop(2, optimizer', 0)

\* the head of the stage-2 epoch loop without the reset_grad() of line 243
epoch_begin_no_reset ==
    /\ UNCHANGED << ensVars, evalVars >>
    /\ pc = "epoch"
    /\ epoch' = epoch + 1
    /\ i' = 0
    /\ grad' = grad
    /\ ran' = Append(ran, epoch + 1)
    /\ steps_in_epoch' = 0
    /\ pc' = "batch"
    /\ UNCHANGED << len_train_loader, epoch_stage2_accumulation, model_type, index, resume, fs,
                    called, restarts, unet,
                    optimizer, lr, start_epoch, max_dice, sched, dice_mean,
                    is_best, state, seen, resumed_at >>

(***************************************************************************)
(* Head of the epoch loop (lines 146-151, 238-245): epoch += 1; stage 2    *)
(* clears the gradient buffer.                                             *)
(***************************************************************************)
epoch_begin ==
    /\ UNCHANGED << ensVars, evalVars >>
    /\ pc = "epoch"
    /\ epoch' = epoch + 1
    /\ i' = 0
    /\ grad' = IF CurStage = 2 THEN {} ELSE grad
    /\ ran' = Append(ran, epoch + 1)
    /\ steps_in_epoch' = 0
    /\ pc' = "batch"
    /\ UNCHANGED << len_train_loader, epoch_stage2_accumulation, model_type, index, resume, fs,
                    called, restarts, unet,
                    optimizer, lr, start_epoch, max_dice, sched, dice_mean,
                    is_best, state, seen, resumed_at >>

\* the accumulation path taken one epoch too early: 'epoch <' at line 260
accumulating_one_epoch_early ==
    CurStage = 2 /\ ~(epoch < epoch_stage2 - epoch_stage2_accumulation)

\* the accumulation path of stage 2 (line 260, negated)
accumulating == CurStage = 2 /\ ~(epoch <= epoch_stage2 - epoch_stage2_accumulation)

\* optimizer.step(): the weights move by the gradients in the buffer
OptimizerStep ==
    /\ unet' = unet + 1
    /\ optimizer' = [optimizer EXCEPT !.steps = @ + 1]

\* one batch of a loop that also steps the optimizer at the last batch of an
\* accumulating epoch, on the gradients left in the buffer
train_batch_flush ==
    /\ UNCHANGED << ensVars, evalVars >>
    /\ pc = "batch"
    /\ i < len_train_loader
    /\ i' = i + 1
    /\ IF ~accumulating
       THEN /\ grad' = { <<epoch, i>> }
            /\ OptimizerStep
       ELSE IF (i + 1) % accumulation_steps = 0 \/ i + 1 = len_train_loader
            THEN grad' = {} /\ OptimizerStep
            ELSE grad' = grad \cup { <<epoch, i>> } /\ UNCHANGED << unet, optimizer >>
    /\ steps_in_epoch' = steps_in_epoch + (optimizer'.steps - optimizer.steps)
    /\ pc' = IF i + 1 = len_train_loader THEN "validate" ELSE "batch"
    /\ UNCHANGED << len_train_loader, epoch_stage2_accumulation, model_type, index, resume, fs,
                    called, restarts, lr,
                    start_epoch, max_dice, epoch, sched, dice_mean, is_best,
                    state, seen, ran, resumed_at >>

(***************************************************************************)
(* One batch (lines 152-177, 246-279).  grad is the set of the batches     *)
(* <<epoch, i>> whose gradients are in the buffer.                         *)
(***************************************************************************)
train_batch ==
    /\ UNCHANGED << ensVars, evalVars >>
    /\ pc = "batch"
    /\ i < len_train_loader
    /\ i' = i + 1
    /\ IF ~accumulating
       THEN \* reset_grad(); loss.backward(); optimizer.step()
            /\ grad' = { <<epoch, i>> }
            /\ OptimizerStep
       ELSE \* loss.backward(); every accumulation_steps batches: step, reset
            IF (i + 1) % accumulation_steps = 0
            THEN grad' = {} /\ OptimizerStep
            ELSE grad' = grad \cup { <<epoch, i>> } /\ UNCHANGED << unet, optimizer >>
    /\ steps_in_epoch' = steps_in_epoch + (optimizer'.steps - optimizer.steps)
    /\ pc' = IF i + 1 = len_train_loader THEN "validate" ELSE "batch"
    /\ UNCHANGED << len_train_loader, epoch_stage2_accumulation, model_type, index, resume, fs,
                    called, restarts, lr,
                    start_epoch, max_dice, epoch, sched, dice_mean, is_best,
                    state, seen, ran, resumed_at >>

\* validation followed by a checkpoint dict that numbers the epochs from 0
\* (the loop variable before 'epoch += 1')
validation_zero_based ==
    /\ UNCHANGED << ensVars, evalVars >>
    /\ pc = "validate"
    /\ \E d \in DiceVals :
        /\ dice_mean' = d
        /\ is_best' = (d > max_dice)
        /\ max_dice' = IF d > max_dice THEN d ELSE max_dice
        /\ seen' = Append(seen, d)
    /\ lr' = get_lr(sched)
    /\ state' = [epoch |-> epoch - 1, state_dict |-> unet, max_dice |-> max_dice',
                 optimizer |-> optimizer, lr |-> lr']
    /\ pc' = "save"
    /\ UNCHANGED << len_train_loader, epoch_stage2_accumulation, model_type, index, resume, fs,
                    called, restarts, unet,
                    optimizer, start_epoch, epoch, i, sched, grad, ran,
                    steps_in_epoch, resumed_at >>

(***************************************************************************)
(* self.validation() and lines 186-197 (288-299): the epoch's mean Dice d, *)
(* is_best, max_dice, lr and the checkpoint dict.                          *)
(***************************************************************************)
validation ==
    /\ UNCHANGED << ensVars, evalVars >>
    /\ pc = "validate"
    /\ \E d \in DiceVals :
        /\ dice_mean' = d
        /\ is_best' = (d > max_dice)
        /\ max_dice' = IF d > max_dice THEN d ELSE max_dice
        /\ seen' = Append(seen, d)
    /\ lr' = get_lr(sched)
    /\ state' = [epoch |-> epoch, state_dict |-> unet, max_dice |-> max_dice',
                 optimizer |-> optimizer, lr |-> lr']
    /\ pc' = "save"
    /\ UNCHANGED << len_train_loader, epoch_stage2_accumulation, model_type, index, resume, fs,
                    called, restarts, unet,
                    optimizer, start_epoch, epoch, i, sched, grad, ran,
                    steps_in_epoch, resumed_at >>

\* lines 201-206 and the loop test: lr_scheduler.step(), next epoch or return
EndEpoch ==
    /\ sched' = [sched EXCEPT !.t = @ + 1]
    /\ pc' = IF epoch < epoch_stage(CurStage) THEN "epoch" ELSE "idle"

\* save_checkpoint with the two steps in the wrong order: the best file is
\* marked with the epoch's state as the write to the epoch's file starts
save_checkpoint_marks_first ==
    /\ UNCHANGED << ensVars, evalVars >>
    /\ pc = "save"
    /\ LET marked == IF is_best
                     THEN [fs EXCEPT ![BestName(CurStage)] = state]
                     ELSE fs
       IN \/ /\ fs' = [marked EXCEPT ![LatestName(CurStage)] = state]
             /\ EndEpoch
          \/ /\ \E c \in {fs[LatestName(CurStage)], Partial} :
                   fs' = [marked EXCEPT ![LatestName(CurStage)] = c]
             /\ pc' = "error"
             /\ UNCHANGED sched
    /\ UNCHANGED << len_train_loader, epoch_stage2_accumulation, model_type, index, resume,
                    called, restarts, unet,
                    optimizer, lr, start_epoch, max_dice, epoch, i, grad,
                    dice_mean, is_best, state, seen,
                    ran, steps_in_epoch, resumed_at >>

(***************************************************************************)
(* Train.save_checkpoint, line 101: torch.save(state, pth_path).  The      *)
(* write may fail (I/O error), leaving the file as it was or cut short.    *)
(***************************************************************************)
save_checkpoint_write ==
    /\ UNCHANGED << ensVars, evalVars >>
    /\ pc = "save"
    /\ \/ /\ fs' = [fs EXCEPT ![LatestName(CurStage)] = state]
          /\ IF is_best
             THEN pc' = "save_copy" /\ UNCHANGED sched
             ELSE EndEpoch
       \/ /\ \E c \in {fs[LatestName(CurStage)], Partial} :
                fs' = [fs EXCEPT ![LatestName(CurStage)] = c]
          /\ pc' = "error"
          /\ UNCHANGED sched
    /\ UNCHANGED << len_train_loader, epoch_stage2_accumulation, model_type, index, resume,
                    called, restarts, unet,
                    optimizer, lr, start_epoch, max_dice, epoch, i, grad,
                    dice_mean, is_best, state, seen,
                    ran, steps_in_epoch, resumed_at >>

\* save_checkpoint that moves (os.rename) the epoch's file to the best file
save_checkpoint_move ==
    /\ UNCHANGED << ensVars, evalVars >>
    /\ pc = "save_copy"
    /\ \/ /\ fs' = [fs EXCEPT ![BestName(CurStage)] = fs[LatestName(CurStage)],
                              ![LatestName(CurStage)] = NoFile]
          /\ EndEpoch
       \/ /\ fs' = [fs EXCEPT ![BestName(CurStage)] = Partial]
          /\ pc' = "error"
          /\ UNCHANGED sched
    /\ UNCHANGED << len_train_loader, epoch_stage2_accumulation, model_type, index, resume,
                    called, restarts, unet,
                    optimizer, lr, start_epoch, max_dice, epoch, i, grad,
                    dice_mean, is_best, state, seen,
                    ran, steps_in_epoch, resumed_at >>

(***************************************************************************)
(* Train.save_checkpoint, lines 102-105: shutil.copyfile to the best       *)
(* file.  The copy may fail, leaving the best file cut short.              *)
(***************************************************************************)
save_checkpoint_copy ==
    /\ UNCHANGED << ensVars, evalVars >>
    /\ pc = "save_copy"
    /\ \/ /\ fs' = [fs EXCEPT ![BestName(CurStage)] = fs[LatestName(CurStage)]]
          /\ EndEpoch
       \/ /\ fs' = [fs EXCEPT ![BestName(CurStage)] = Partial]
          /\ pc' = "error"
          /\ UNCHANGED sched
    /\ UNCHANGED << len_train_loader, epoch_stage2_accumulation, model_type, index, resume,
                    called, restarts, unet,
                    optimizer, lr, start_epoch, max_dice, epoch, i, grad,
                    dice_mean, is_best, state, seen,
                    ran, steps_in_epoch, resumed_at >>

(***************************************************************************)
(* The process has ended (returned or raised) and is started again on the  *)
(* same save_path, with a new Train object and a new config.resume.        *)
(***************************************************************************)
Restart ==
    /\ UNCHANGED << ensVars, evalVars >>
    /\ pc \in {"idle", "error"}
    /\ restarts < MaxRestarts
    /\ restarts' = restarts + 1
    /\ resume' \in {NoResume} \cup FileNames
    /\ NewObject
    /\ UNCHANGED << len_train_loader, epoch_stage2_accumulation, model_type, index, fs >>

Next ==
    \/ train
    \/ train_stage2
    \/ epoch_begin
    \/ train_batch
    \/ validation
    \/ save_checkpoint_write
    \/ save_checkpoint_copy
    \/ Restart

Spec == Init /\ [][Next]_vars

(***************************************************************************)
(* The ensemble: Test.test_model of create_submission.py and of            *)
(* demo_on_val.py.                                                         *)
(***************************************************************************)
\* the training process is not running
TrainOff ==
    /\ model_type = << "U", "Net" >>
    /\ index = 0
    /\ resume = NoResume
    /\ epoch_stage2_accumulation = 0
    /\ len_train_loader = 1
    /\ fs = << >>
    /\ restarts = 0
    /\ pc = "off"
    /\ called = << >>
    /\ unet = W0
    /\ optimizer = NoOptimizer
    /\ lr = config_lr
    /\ start_epoch = 0
    /\ max_dice = 0
    /\ epoch = 0
    /\ i = 0
    /\ sched = [base |-> config_lr, T |-> 0, t |-> 0]
    /\ grad = {}
    /\ dice_mean = 0
    /\ is_best = FALSE
    /\ state = NoFile
    /\ seen = << >>
    /\ ran = << >>
    /\ steps_in_epoch = 0
    /\ resumed_at = -1

\* test_model is entered: the accumulators are zero, nothing is fused
EnsInit ==
    /\ driver \in {"create_submission", "demo_on_val"}
    /\ seg_average_vote \in BOOLEAN
    /\ n_splits \in { [j \in 1..K |-> j - 1] : K \in 1..MaxSplits }
    /\ less_than_sum \in { [f \in EnsFolds |-> (b + f) % (NumPixels + 1)] : b \in 0..NumPixels }
    /\ missing \in {NoMissing} \cup
                   { <<r, n_splits[j]>> : r \in {"cla", "seg"}, j \in 1..Len(n_splits) }
    /\ ens_pc = "load"
    /\ k = 1
    /\ img = 1
    /\ models = [cla |-> -1, seg |-> -1]
    /\ preds = [im \in Images |-> ZeroMask]
    /\ pred_nfolds = ZeroMask
    /\ pred = ZeroMask
    /\ final = [im \in Images |-> NoMask]
    /\ submission_written = FALSE
    /\ contribs = [im \in Images |-> << >>]
    /\ seg_invoked = {}
    /\ gate_closed = {}

InitEns == TrainOff /\ EnsInit /\ ValOff /\ ThrOff /\ LossOff /\ PairOff

RECURSIVE SumTo(_, _)
SumTo(v, n) == IF n = 0 THEN 0 ELSE v[n] + SumTo(v, n - 1)
\* np.sum(pred)
VecSum(v) == SumTo(v, NumPixels)
\* a + b, elementwise
VecAdd(a, b) == [p \in Pixels |-> a[p] + b[p]]
\* np.where(pred > threshold, 1, 0)
binarize(v, threshold) == [p \in Pixels |-> IF v[p] > threshold THEN 1 ELSE 0]

\* the classification gate that never closes
gate_never(b, fold) == b

\* the classification gate that also closes at a count equal to less_than_sum
gate_at_equal(b, fold) == IF VecSum(b) <= less_than_sum[fold] THEN ZeroMask ELSE b

\* lines 134-135 (133-134): if np.sum(pred) < less_than_sum[fold]: pred[:] = 0
gate(b, fold) == IF VecSum(b) < less_than_sum[fold] THEN ZeroMask ELSE b

\* rounding halves up: round(n / 2.0) of Python 2
round_half_up(n) == (n + 1) \div 2

\* round(n / 2.0) of Python 3: a half is rounded to the even neighbour
py_round_half(n) ==
    IF n % 2 = 0 THEN n \div 2
    ELSE IF (n \div 2) % 2 = 0 THEN n \div 2 ELSE (n \div 2) + 1

\* vote_ticket = round(vote_model_num / 2.0)
vote_ticket == py_round_half(Len(n_splits))

\* np.where(pred > vote_ticket, 1, 0)
fuse_vote(acc) == [p \in Pixels |-> IF acc[p] > vote_ticket THEN 1 ELSE 0]

\* the average strategy without the division by len(n_splits)
fuse_average_no_division(acc) ==
    [p \in Pixels |-> IF acc[p] > average_threshold THEN 1 ELSE 0]

\* preds / len(n_splits), then np.where(pred > average_threshold, 1, 0);
\* acc / n > t is acc > t * n in exact arithmetic
fuse_average(acc) ==
    [p \in Pixels |-> IF acc[p] > average_threshold * Len(n_splits) THEN 1 ELSE 0]

fuse(acc) == IF ~seg_average_vote THEN fuse_vote(acc) ELSE fuse_average(acc)

\* the next iteration of the fold loop, after the last image of a fold
\* (create_submission) or after a fold of an image (demo_on_val)
NextFold ==
    IF k < Len(n_splits)
    THEN k' = k + 1 /\ ens_pc' = "load"
    ELSE k' = k /\ ens_pc' = "fuse"

\* load_models for a driver that skips a fold whose weight file is missing
load_models_skip ==
    /\ ens_pc = "load"
    /\ UNCHANGED << trainVars, evalVars >>
    /\ LET fold == n_splits[k] IN
       IF missing \in { <<"cla", fold>>, <<"seg", fold>> }
       THEN /\ models' = [cla |-> -1, seg |-> -1]
            /\ NextFold
       ELSE /\ models' = [cla |-> fold, seg |-> fold]
            /\ ens_pc' = "predict"
            /\ k' = k
    /\ UNCHANGED << driver, seg_average_vote, n_splits, less_than_sum, missing,
                    img, preds, pred_nfolds, pred, final,
                    submission_written, contribs, seg_invoked, gate_closed >>

(***************************************************************************)
(* Lines 101-120 (104-127): the fold's classification weights are loaded   *)
(* into self.unet, its segmentation weights into seg_unet.  torch.load of  *)
(* a path that does not exist raises FileNotFoundError, which nothing      *)
(* catches.                                                                *)
(***************************************************************************)
load_models ==
    /\ ens_pc = "load"
    /\ UNCHANGED << trainVars, evalVars >>
    /\ LET fold == n_splits[k] IN
       IF missing = <<"cla", fold>>
       THEN models' = [cla |-> -1, seg |-> -1] /\ ens_pc' = "error"
       ELSE IF missing = <<"seg", fold>>
       THEN models' = [cla |-> fold, seg |-> -1] /\ ens_pc' = "error"
       ELSE models' = [cla |-> fold, seg |-> fold] /\ ens_pc' = "predict"
    /\ UNCHANGED << driver, seg_average_vote, n_splits, less_than_sum, missing,
                    k, img, preds, pred_nfolds, pred, final,
                    submission_written, contribs, seg_invoked, gate_closed >>

(***************************************************************************)
(* Lines 126-144 (129-142): one image through one fold.  c is the TTA      *)
(* prediction of the classification model, s that of the segmentation      *)
(* model.                                                                  *)
(***************************************************************************)
predict_image ==
    /\ ens_pc = "predict"
    /\ UNCHANGED << trainVars, evalVars >>
    /\ LET fold == n_splits[k] IN
       \E c \in [Pixels -> Levels] :
          LET b == binarize(c, thresholds_classify[fold])
              g == gate(b, fold)
          IN /\ gate_closed' = IF VecSum(b) < less_than_sum[fold] \/ VecSum(b) = 0
                               THEN gate_closed \cup { <<fold, img>> }
                               ELSE gate_closed
             /\ IF VecSum(g) > 0
                THEN /\ \E s \in [Pixels -> Levels] :
                          pred' = IF ~seg_average_vote
                                  THEN binarize(s, thresholds_seg[fold])
                                  ELSE s
                     /\ seg_invoked' = seg_invoked \cup { <<fold, img>> }
                ELSE /\ pred' = g
                     /\ seg_invoked' = seg_invoked
             /\ contribs' = [contribs EXCEPT ![img] = Append(@, pred')]
    /\ IF driver = "create_submission"
       THEN /\ preds' = [preds EXCEPT ![img] = VecAdd(@, pred')]
            /\ pred_nfolds' = pred_nfolds
            /\ IF img < NumImages
               THEN img' = img + 1 /\ k' = k /\ ens_pc' = "predict"
               ELSE img' = 1 /\ NextFold
       ELSE /\ pred_nfolds' = VecAdd(pred_nfolds, pred')
            /\ preds' = preds
            /\ img' = img
            /\ NextFold
    /\ UNCHANGED << driver, seg_average_vote, n_splits, less_than_sum, missing,
                    models, final, submission_written >>

(***************************************************************************)
(* create_submission.py, lines 147-180: every image's accumulator is       *)
(* fused and submission.csv is written.                                    *)
(***************************************************************************)
fuse_submission ==
    /\ ens_pc = "fuse"
    /\ driver = "create_submission"
    /\ UNCHANGED << trainVars, evalVars >>
    /\ final' = [im \in Images |-> fuse(preds[im])]
    /\ submission_written' = TRUE
    /\ ens_pc' = "done"
    /\ UNCHANGED << driver, seg_average_vote, n_splits, less_than_sum, missing,
                    k, img, models, preds, pred_nfolds, pred, contribs,
                    seg_invoked, gate_closed >>

(***************************************************************************)
(* demo_on_val.py, lines 144-158 and the head of the image loop (100-102): *)
(* the image's accumulator is fused; the next image starts from zero.      *)
(***************************************************************************)
fuse_demo ==
    /\ ens_pc = "fuse"
    /\ driver = "demo_on_val"
    /\ UNCHANGED << trainVars, evalVars >>
    /\ final' = [final EXCEPT ![img] = fuse(pred_nfolds)]
    /\ IF img < NumImages
       THEN img' = img + 1 /\ k' = 1 /\ pred_nfolds' = ZeroMask /\ ens_pc' = "load"
       ELSE img' = img /\ k' = k /\ pred_nfolds' = pred_nfolds /\ ens_pc' = "done"
    /\ UNCHANGED << driver, seg_average_vote, n_splits, less_than_sum, missing,
                    models, preds, pred, submission_written, contribs,
                    seg_invoked, gate_closed >>

NextEns ==
    \/ load_models
    \/ predict_image
    \/ fuse_submission
    \/ fuse_demo

SpecEns == InitEns /\ [][NextEns]_vars

(***************************************************************************)
(* The two drivers on the same images and the same weights: the test_model *)
(* of create_submission.py runs first and what self.tta returned is kept;  *)
(* the test_model of demo_on_val.py then gets the same predictions (TTA    *)
(* has no randomness: mirror, CLAHE(p=1.0), identity, model in eval mode). *)
(***************************************************************************)
\* images both drivers are run on
NumPairImages == 2
\* folds both drivers are run on: 1..MaxPairSplits
MaxPairSplits == 2

PairImages == 1..NumPairImages

\* lines 133-143 (132-141): what a fold adds for an image, c the TTA
\* prediction of the classification model, s that of the segmentation model
gate_open(c, fold) == VecSum(gate(binarize(c, thresholds_classify[fold]), fold)) > 0
fold_pred(c, s, fold) ==
    IF gate_open(c, fold)
    THEN IF ~seg_average_vote THEN binarize(s, thresholds_seg[fold]) ELSE s
    ELSE gate(binarize(c, thresholds_classify[fold]), fold)

PairInit ==
    /\ driver = "none"
    /\ seg_average_vote \in BOOLEAN
    /\ n_splits \in { [j \in 1..K |-> j - 1] : K \in 1..MaxPairSplits }
    /\ less_than_sum \in { [f \in EnsFolds |-> (b + f) % (NumPixels + 1)] : b \in 0..NumPixels }
    /\ missing = NoMissing
    /\ ens_pc = "off"
    /\ k = 0
    /\ img = 0
    /\ models = [cla |-> -1, seg |-> -1]
    /\ preds = << >>
    /\ pred_nfolds = ZeroMask
    /\ pred = ZeroMask
    /\ final = << >>
    /\ submission_written = FALSE
    /\ contribs = << >>
    /\ seg_invoked = {}
    /\ gate_closed = {}
    /\ pair_pc = "sub"
    /\ tta_cla = << >>
    /\ tta_seg = << >>
    /\ sub_k = 1
    /\ sub_img = 1
    /\ sub_preds = [im \in PairImages |-> ZeroMask]
    /\ sub_n = [im \in PairImages |-> << >>]
    /\ sub_final = [im \in PairImages |-> NoMask]
    /\ demo_k = 1
    /\ demo_img = 1
    /\ demo_pred_nfolds = ZeroMask
    /\ demo_n = [im \in PairImages |-> << >>]
    /\ demo_final = [im \in PairImages |-> NoMask]

InitPair == TrainOff /\ ValOff /\ ThrOff /\ LossOff /\ PairInit

(***************************************************************************)
(* create_submission.py, lines 100-144: folds in the outer loop, images in *)
(* the inner one; preds[index, ...] += pred.                               *)
(***************************************************************************)
sub_predict ==
    /\ pair_pc = "sub"
    /\ sub_k <= Len(n_splits)
    /\ LET fold == n_splits[sub_k] IN
       \E c \in [Pixels -> Levels] :
       \E s \in IF gate_open(c, fold) THEN [Pixels -> Levels] ELSE {NoMask} :
          /\ tta_cla' = tta_cla @@ (<< fold, sub_img >> :> c)
          /\ tta_seg' = IF gate_open(c, fold)
                        THEN tta_seg @@ (<< fold, sub_img >> :> s)
                        ELSE tta_seg
          /\ sub_preds' = [sub_preds EXCEPT ![sub_img] = VecAdd(@, fold_pred(c, s, fold))]
          /\ sub_n' = [sub_n EXCEPT ![sub_img] = Append(@, fold)]
    /\ IF sub_img < NumPairImages
       THEN sub_img' = sub_img + 1 /\ sub_k' = sub_k
       ELSE sub_img' = 1 /\ sub_k' = sub_k + 1
    /\ UNCHANGED << pair_pc, sub_final, demo_k, demo_img, demo_pred_nfolds, demo_n,
                    demo_final >>
    /\ UNCHANGED << trainVars, ensVars, valVars, thrVars, lossVars >>

\* create_submission.py, lines 146-164: every image's slot of preds is fused
sub_fuse ==
    /\ pair_pc = "sub"
    /\ sub_k = Len(n_splits) + 1
    /\ sub_final' = [im \in PairImages |-> fuse(sub_preds[im])]
    /\ pair_pc' = "demo"
    /\ UNCHANGED << tta_cla, tta_seg, sub_k, sub_img, sub_preds, sub_n, demo_k,
                    demo_img, demo_pred_nfolds, demo_n, demo_final >>
    /\ UNCHANGED << trainVars, ensVars, valVars, thrVars, lossVars >>

(***************************************************************************)
(* demo_on_val.py, lines 100-142: images in the outer loop, folds in the   *)
(* inner one; pred_nfolds += pred.                                         *)
(***************************************************************************)
demo_predict ==
    /\ pair_pc = "demo"
    /\ demo_k <= Len(n_splits)
    /\ LET fold == n_splits[demo_k]
           c == tta_cla[<< fold, demo_img >>]
           s == IF gate_open(c, fold) THEN tta_seg[<< fold, demo_img >>] ELSE NoMask
       IN /\ demo_pred_nfolds' = VecAdd(demo_pred_nfolds, fold_pred(c, s, fold))
          /\ demo_n' = [demo_n EXCEPT ![demo_img] = Append(@, fold)]
    /\ demo_k' = demo_k + 1
    /\ UNCHANGED << pair_pc, tta_cla, tta_seg, sub_k, sub_img, sub_preds, sub_n,
                    sub_final, demo_img, demo_final >>
    /\ UNCHANGED << trainVars, ensVars, valVars, thrVars, lossVars >>

\* demo_fuse that keeps pred_nfolds for the next image
demo_fuse_no_reset ==
    /\ pair_pc = "demo"
    /\ demo_k = Len(n_splits) + 1
    /\ demo_final' = [demo_final EXCEPT ![demo_img] = fuse(demo_pred_nfolds)]
    /\ IF demo_img < NumPairImages
       THEN /\ demo_img' = demo_img + 1
            /\ demo_k' = 1
            /\ demo_pred_nfolds' = demo_pred_nfolds
            /\ pair_pc' = "demo"
       ELSE /\ pair_pc' = "done"
            /\ UNCHANGED << demo_img, demo_k, demo_pred_nfolds >>
    /\ UNCHANGED << tta_cla, tta_seg, sub_k, sub_img, sub_preds, sub_n, sub_final,
                    demo_n >>
    /\ UNCHANGED << trainVars, ensVars, valVars, thrVars, lossVars >>

(***************************************************************************)
(* demo_on_val.py, lines 144-152, and the head of the image loop (line     *)
(* 102, pred_nfolds = 0): the image's accumulator is fused; the next image *)
(* starts from zero.                                                       *)
(***************************************************************************)
demo_fuse ==
    /\ pair_pc = "demo"
    /\ demo_k = Len(n_splits) + 1
    /\ demo_final' = [demo_final EXCEPT ![demo_img] = fuse(demo_pred_nfolds)]
    /\ IF demo_img < NumPairImages
       THEN /\ demo_img' = demo_img + 1
            /\ demo_k' = 1
            /\ demo_pred_nfolds' = ZeroMask
            /\ pair_pc' = "demo"
       ELSE /\ pair_pc' = "done"
            /\ UNCHANGED << demo_img, demo_k, demo_pred_nfolds >>
    /\ UNCHANGED << tta_cla, tta_seg, sub_k, sub_img, sub_preds, sub_n, sub_final,
                    demo_n >>
    /\ UNCHANGED << trainVars, ensVars, valVars, thrVars, lossVars >>

NextPair ==
    \/ sub_predict
    \/ sub_fuse
    \/ demo_predict
    \/ demo_fuse

SpecPair == InitPair /\ [][NextPair]_vars

(***************************************************************************)
(* The Dice of validation: Train.dice_overall and the means taken of it.   *)
(* Divisions are exact: a value is a rational number in lowest terms.      *)
(***************************************************************************)
RECURSIVE Gcd(_, _)
Gcd(a, b) == IF b = 0 THEN a ELSE Gcd(b, a % b)

\* num / den, den > 0, in lowest terms
Rat(num, den) == LET g == Gcd(num, den) IN << num \div g, den \div g >>
RatAdd(x, y) == Rat(x[1] * y[2] + y[1] * x[2], x[2] * y[2])
RatDiv(x, n) == Rat(x[1], x[2] * n)
RatLeq(x, y) == x[1] * y[2] <= y[1] * x[2]

\* dice_overall with the true union |P or T| as the denominator
dice_overall_true_union(prds, targs) ==
    [n \in 1..Len(prds) |->
        LET intersect == VecSum([p \in Pixels |-> prds[n][p] * targs[n][p]])
            union == VecSum([p \in Pixels |-> prds[n][p] + targs[n][p]]) - intersect
            u0 == union = 0
        IN Rat(2 * (IF u0 THEN 1 ELSE intersect), IF u0 THEN 2 ELSE union)]

\* dice_overall with the prediction counted twice in the denominator
dice_overall_preds_twice(prds, targs) ==
    [n \in 1..Len(prds) |->
        LET intersect == VecSum([p \in Pixels |-> prds[n][p] * targs[n][p]])
            union == VecSum([p \in Pixels |-> prds[n][p] + prds[n][p]])
            u0 == union = 0
        IN Rat(2 * (IF u0 THEN 1 ELSE intersect), IF u0 THEN 2 ELSE union)]

\* dice_overall that leaves the intersection 0 where the union is 0
dice_overall_empty_is_zero(prds, targs) ==
    [n \in 1..Len(prds) |->
        LET intersect == VecSum([p \in Pixels |-> prds[n][p] * targs[n][p]])
            union == VecSum([p \in Pixels |-> prds[n][p] + targs[n][p]])
            u0 == union = 0
        IN Rat(2 * intersect, IF u0 THEN 2 ELSE union)]

(***************************************************************************)
(* Train.dice_overall(preds, targs), lines 343-364: for each sample n of   *)
(* the batch, intersect = (preds * targs).sum(-1), union = (preds +        *)
(* targs).sum(-1); where union == 0, intersect = 1 and union = 2; the      *)
(* value is 2. * intersect / union.                                        *)
(***************************************************************************)
dice_overall(prds, targs) ==
    [n \in 1..Len(prds) |->
        LET intersect == VecSum([p \in Pixels |-> prds[n][p] * targs[n][p]])
            union == VecSum([p \in Pixels |-> prds[n][p] + targs[n][p]])
            u0 == union = 0
        IN Rat(2 * (IF u0 THEN 1 ELSE intersect), IF u0 THEN 2 ELSE union)]

RECURSIVE RatSum(_, _)
RatSum(v, n) == IF n = 0 THEN Zero ELSE RatAdd(v[n], RatSum(v, n - 1))
\* tensor.mean() of the per-sample values
mean(v) == RatDiv(RatSum(v, Len(v)), Len(v))

\* validation() is entered: loss_sum, dice_sum = 0, 0
ValInit ==
    /\ val_pc = "loop"
    /\ val_i = 0
    /\ net_output_flat_sign = << >>
    /\ masks_flat = << >>
    /\ dice_samples = << >>
    /\ dice = Zero
    /\ dice_sum = Zero
    /\ val_dice_mean = Zero

InitDice == TrainOff /\ EnsOff /\ ValInit /\ ThrOff /\ LossOff /\ PairOff

(***************************************************************************)
(* validation(), lines 318-335: one batch of the validation loader; the    *)
(* output is binarized at 0.5, masks are the binary ground truth.          *)
(***************************************************************************)
validation_batch ==
    /\ val_pc = "loop"
    /\ val_i < NumValBatches
    /\ \E sr \in Batches, gt \in Batches :
          /\ net_output_flat_sign' = sr
          /\ masks_flat' = gt
          /\ dice_samples' = dice_overall(sr, gt)
    /\ dice' = mean(dice_samples')
    /\ dice_sum' = RatAdd(dice_sum, dice')
    /\ val_i' = val_i + 1
    /\ UNCHANGED << val_pc, val_dice_mean >>
    /\ UNCHANGED << trainVars, ensVars, thrVars, lossVars, pairVars >>

\* validation(), lines 337-340: dice_mean = dice_sum / len(tbar)
validation_return ==
    /\ val_pc = "loop"
    /\ val_i = NumValBatches
    /\ val_dice_mean' = RatDiv(dice_sum, NumValBatches)
    /\ val_pc' = "done"
    /\ UNCHANGED << val_i, net_output_flat_sign, masks_flat, dice_samples, dice,
                    dice_sum >>
    /\ UNCHANGED << trainVars, ensVars, thrVars, lossVars, pairVars >>

NextDice ==
    \/ validation_batch
    \/ validation_return

SpecDice == InitDice /\ [][NextDice]_vars

(***************************************************************************)
(* Train.choose_threshold, lines 366-416.  Thresholds are in hundredths.   *)
(* The validation set is given by its mean Dice at every threshold, in     *)
(* thousandths: a curve that rises by `rise` per hundredth up to its peak  *)
(* at 0.63 and falls by `fall` per hundredth after it.                     *)
(***************************************************************************)
\* the mean Dice, at threshold th, of a validation set whose curve rises by
\* r and falls by f on the two sides of 0.63
Curve(r, f, th) ==
    IF th <= 63 THEN 1000 - r * (63 - th) ELSE 1000 - f * (th - 63)

\* sum(tmp) / len(tmp) of lines 377-386 (393-402) at threshold th
MeanDice(th) == Curve(rise, fall, th)

\* np.arange(0.1, 1, 0.1)
thrs_ == [j \in 1..9 |-> 10 * j]

\* the length of np.arange(t0 - 0.05, t0 + 0.05, 0.01) in float64:
\* ceil((stop - start) / 0.01) is 11 for t0 = 0.1 and 0.5 ... 0.9, else 10
arange_len(t0) == IF t0 \in {20, 30, 40} THEN 10 ELSE 11

\* a fine phase that scans 0.1 on either side of the coarse choice
thrs_wide(t0) == [j \in 1..21 |-> t0 - 10 + (j - 1)]

\* a fine list that starts above the coarse choice and leaves it out
thrs_above(t0) == [j \in 1..arange_len(t0) |-> t0 + j]

\* np.arange(best_thrs_ - 0.05, best_thrs_ + 0.05, 0.01)
thrs(t0) == [j \in 1..arange_len(t0) |-> t0 - 5 + (j - 1)]

\* ndarray.argmax(): the first index of the largest value
argmax(v) ==
    CHOOSE j \in 1..Len(v) :
        /\ \A m \in 1..Len(v) : v[m] <= v[j]
        /\ \A m \in 1..(j - 1) : v[m] < v[j]

\* choose_threshold is entered with a validation set
ThrInit ==
    /\ thr_pc = "coarse"
    /\ rise \in 1..MaxSlope
    /\ fall \in 1..MaxSlope
    /\ th_k = 1
    /\ dices_ = << >>
    /\ best_thrs_ = 0
    /\ dices = << >>
    /\ best_thrs = 0
    /\ score = 0

InitThr == TrainOff /\ EnsOff /\ ValOff /\ ThrInit /\ LossOff /\ PairOff

\* lines 376-386: one threshold of the coarse list
coarse_threshold ==
    /\ thr_pc = "coarse"
    /\ th_k <= Len(thrs_)
    /\ dices_' = Append(dices_, MeanDice(thrs_[th_k]))
    /\ th_k' = th_k + 1
    /\ UNCHANGED << thr_pc, rise, fall, best_thrs_, dices, best_thrs, score >>
    /\ UNCHANGED << trainVars, ensVars, valVars, lossVars, pairVars >>

\* lines 387-391: best_thrs_ = thrs_[dices_.argmax()]
coarse_choice ==
    /\ thr_pc = "coarse"
    /\ th_k = Len(thrs_) + 1
    /\ best_thrs_' = thrs_[argmax(dices_)]
    /\ th_k' = 1
    /\ thr_pc' = "fine"
    /\ UNCHANGED << rise, fall, dices_, dices, best_thrs, score >>
    /\ UNCHANGED << trainVars, ensVars, valVars, lossVars, pairVars >>

\* lines 392-402: one threshold of the fine list
fine_threshold ==
    /\ thr_pc = "fine"
    /\ th_k <= Len(thrs(best_thrs_))
    /\ dices' = Append(dices, MeanDice(thrs(best_thrs_)[th_k]))
    /\ th_k' = th_k + 1
    /\ UNCHANGED << thr_pc, rise, fall, dices_, best_thrs_, best_thrs, score >>
    /\ UNCHANGED << trainVars, ensVars, valVars, lossVars, pairVars >>

\* lines 403-416: score = dices.max(), best_thrs = thrs[dices.argmax()]
fine_choice ==
    /\ thr_pc = "fine"
    /\ th_k = Len(thrs(best_thrs_)) + 1
    /\ score' = dices[argmax(dices)]
    /\ best_thrs' = thrs(best_thrs_)[argmax(dices)]
    /\ thr_pc' = "done"
    /\ UNCHANGED << rise, fall, th_k, dices_, best_thrs_, dices >>
    /\ UNCHANGED << trainVars, ensVars, valVars, lossVars, pairVars >>

NextThr ==
    \/ coarse_threshold
    \/ coarse_choice
    \/ fine_threshold
    \/ fine_choice

SpecThr == InitThr /\ [][NextThr]_vars

(***************************************************************************)
(* The losses of utils/loss.py.  A float is a rational number or NaN;      *)
(* logits and probabilities are in tenths, logarithms in hundredths.       *)
(***************************************************************************)
\* samples of a batch handed to a loss (input.size(0))
LossBatch == 1
\* loss strategies in the list of a GetLoss
MaxFuns == 2
\* the per-term weights are 0..MaxWeight
MaxWeight == 2

\* alpha=None, as a number that is no alpha; loss_weights=None, as a list that
\* is no list of weights
None == -1
NoWeights == << -1 >>
\* what 0/0 gives: the mean of an empty tensor
NaN == << 0, 0 >>
\* torch.isfinite
IsFinite(x) == x[2] # 0
\* sum and product of floats; NaN spreads
FAdd(x, y) ==
    IF x = NaN \/ y = NaN THEN NaN
    ELSE LET g == Gcd(x[2], y[2])
         IN Rat(x[1] * (y[2] \div g) + y[1] * (x[2] \div g), (x[2] \div g) * y[2])
FMul(x, y) ==
    IF x = NaN \/ y = NaN THEN NaN
    ELSE LET a == Rat(x[1], y[2])
             b == Rat(y[1], x[2])
         IN << a[1] * b[1], a[2] * b[2] >>
RECURSIVE FSum(_, _)
FSum(v, n) == IF n = 0 THEN Zero ELSE FAdd(v[n], FSum(v, n - 1))
\* tensor.mean(): nan for a tensor without elements
tensor_mean(v) == IF Len(v) = 0 THEN NaN ELSE FMul(FSum(v, Len(v)), Rat(1, Len(v)))

\* the logits of the network: -2.0 and 2.0
Logits == {-20, 20}
\* torch.sigmoid, to the tenth, on the values the losses hand to it
sigmoid(x) ==
    CASE x = -20 -> 1
      [] x = 20 -> 9
      [] x = 0 -> 5
      [] x = 1 -> 5
      [] x = 9 -> 7
      [] x = -4 -> 4
      [] x = 4 -> 6
\* - torch.log of a probability in tenths, in hundredths
NegLog(p) ==
    CASE p = 1 -> 230
      [] p = 3 -> 120
      [] p = 4 -> 92
      [] p = 5 -> 69
      [] p = 6 -> 51
      [] p = 7 -> 36
      [] p = 9 -> 11

\* tensor.view(-1) of a batch: the pixels of all samples in one row
view_flat(b) ==
    [j \in 1..(Len(b) * NumPixels) |-> b[((j - 1) \div NumPixels) + 1][((j - 1) % NumPixels) + 1]]
\* v[m == c]: the elements of v where the mask m is c
Selected(v, m, c) ==
    LET idx == SelectSeq([j \in 1..Len(v) |-> j], LAMBDA j : m[j] = c)
    IN [j \in 1..Len(idx) |-> v[idx[j]]]

(***************************************************************************)
(* dice_loss(preds, trues), lines 43-58, weight None, is_average True:     *)
(* scores = 2 (intersection + 1) / (preds.sum + trues.sum + 1) per sample, *)
(* score = scores.sum() / num, clamped to [0, 1].  preds in tenths.        *)
(***************************************************************************)
dice_loss(prds, trues) ==
    LET num == Len(prds)
        scores == [n \in 1..num |->
            LET intersection == VecSum([p \in Pixels |-> prds[n][p] * trues[n][p]])
                psum == VecSum(prds[n])
                tsum == VecSum(trues[n])
            IN Rat(2 * (intersection + 10), psum + 10 * tsum + 10)]
        sc == FMul(FSum(scores, num), Rat(1, num))
    IN IF RatLeq(One, sc) THEN One ELSE sc

\* DiceLoss.forward, lines 71-72: 1 - dice_loss(F.sigmoid(input), target)
DiceLoss(inp, targ) ==
    LET d == dice_loss([n \in 1..Len(inp) |-> [p \in Pixels |-> sigmoid(inp[n][p])]], targ)
    IN Rat(d[2] - d[1], d[2])

\* nn.BCEWithLogitsLoss, mean reduction: - t log(p) - (1 - t) log(1 - p)
BCEWithLogitsLoss(inp, targ) ==
    LET x == view_flat(inp)
        t == view_flat(targ)
    IN tensor_mean([j \in 1..Len(x) |->
           Rat(NegLog(IF t[j] = 1 THEN sigmoid(x[j]) ELSE 10 - sigmoid(x[j])), 100)])

\* BCEDiceLoss.forward, lines 80-81
BCEDiceLoss(inp, targ) == FAdd(BCEWithLogitsLoss(inp, targ), DiceLoss(inp, targ))

\* torch.pow(q, gamma) of q in tenths, gamma a natural number
RECURSIVE pow(_, _)
pow(q, g) == IF g = 0 THEN One ELSE FMul(Rat(q, 10), pow(q, g - 1))

(***************************************************************************)
(* FocalLoss.forward, lines 126-164, alpha given: pt = sigmoid(input),     *)
(* clamped to [1e-8, 1 - 1e-8] (no change at these values); pt of the      *)
(* positive pixels and 1 - pt of the negative ones; the focus clamped to   *)
(* [0, 2] (it is at most 1); alpha[0] * loss_p.mean() + alpha[1] *         *)
(* loss_neg.mean().  alpha in hundredths.                                  *)
(***************************************************************************)
FocalLoss(gamma, alpha, inp, targ) ==
    LET x == view_flat(inp)
        t == view_flat(targ)
        pt_all == [j \in 1..Len(x) |-> sigmoid(x[j])]
        pt_neg_all == [j \in 1..Len(x) |-> 10 - pt_all[j]]
        pt == Selected(pt_all, t, 1)
        pt_neg == Selected(pt_neg_all, t, 0)
        loss_p == [j \in 1..Len(pt) |-> FMul(pow(10 - pt[j], gamma), Rat(NegLog(pt[j]), 100))]
        loss_neg == [j \in 1..Len(pt_neg) |->
                        FMul(pow(10 - pt_neg[j], gamma), Rat(NegLog(pt_neg[j]), 100))]
    IN FAdd(FMul(Rat(alpha, 100), tensor_mean(loss_p)),
            FMul(Rat(100 - alpha, 100), tensor_mean(loss_neg)))

(***************************************************************************)
(* MultiFocalLoss.forward, lines 229-256, for two classes: the input has   *)
(* the channels (zero_ch, inp), so that the softmax of the class 1 is      *)
(* sigmoid(inp - zero_ch); logpt of the target's class, times alpha of it  *)
(* (alpha, 1 - alpha) when alpha is given; - (1 - pt) ** gamma * logpt,    *)
(* mean over the pixels.                                                   *)
(***************************************************************************)
MultiFocalLoss(gamma, alpha, inp, zero_ch, targ) ==
    LET x == view_flat(inp)
        t == view_flat(targ)
        pt == [j \in 1..Len(x) |-> IF t[j] = 1 THEN sigmoid(x[j] - zero_ch)
                                               ELSE 10 - sigmoid(x[j] - zero_ch)]
        at == [j \in 1..Len(x) |-> IF alpha = None THEN One
                                   ELSE IF t[j] = 0 THEN Rat(alpha, 100)
                                                    ELSE Rat(100 - alpha, 100)]
    IN tensor_mean([j \in 1..Len(x) |->
           FMul(pow(10 - pt[j], gamma), FMul(Rat(NegLog(pt[j]), 100), at[j]))])

\* the loss strategies a GetLoss is built from: gamma 0 (the default) or 2,
\* alpha None (the default) or 0.25
Gammas == {0, 2}
Alphas == {None, 25}
BinaryFuns ==
    [fn : {"DiceLoss", "BCEDiceLoss"}, gamma : {0}, alpha : {None}]
        \cup [fn : {"FocalLoss"}, gamma : Gammas, alpha : Alphas]
MultiFuns == [fn : {"MultiFocalLoss"}, gamma : Gammas, alpha : Alphas]

\* FocalLoss.forward, line 162: self.alpha[0] of alpha None is a TypeError
Raises(f) == f.fn = "FocalLoss" /\ f.alpha = None

\* loss_fun(input, target); the other channel of a two-class input is 0, or
\* sigmoid(0) once GetLoss has applied the sigmoid
loss_fun(f, inp, flag, targ) ==
    CASE f.fn = "DiceLoss" -> DiceLoss(inp, targ)
      [] f.fn = "BCEDiceLoss" -> BCEDiceLoss(inp, targ)
      [] f.fn = "FocalLoss" -> FocalLoss(f.gamma, f.alpha, inp, targ)
      [] f.fn = "MultiFocalLoss" ->
            MultiFocalLoss(f.gamma, f.alpha, inp, IF flag THEN sigmoid(0) ELSE 0, targ)

(***************************************************************************)
(* GetLoss.__init__, lines 262-274: a non-empty list of weights becomes a  *)
(* tensor; None and [] are kept.  The truth value of loss_weights, as      *)
(* 'if self.loss_weights:' takes it at line 281: False for None and [],    *)
(* the value != 0 of a tensor of one element; that of a tensor of more     *)
(* elements is a RuntimeError.                                             *)
(***************************************************************************)
Ambiguous(w) == w # NoWeights /\ Len(w) > 1
Truth(w) == w # NoWeights /\ Len(w) = 1 /\ w[1] # 0

SeqsUpTo(S, n) == UNION { [1..m -> S] : m \in 0..n }

LossInit ==
    /\ loss_pc = "call"
    /\ input \in [1..LossBatch -> [Pixels -> Logits]]
    /\ target \in [1..LossBatch -> Masks]
    /\ sigmoid_flag \in BOOLEAN
    /\ loss_funs \in (SeqsUpTo(BinaryFuns, MaxFuns) \ {<< >>}) \cup { << f >> : f \in MultiFuns }
    /\ loss_weights \in {NoWeights} \cup SeqsUpTo(0..MaxWeight, MaxFuns)
    /\ loss_index = 0
    /\ loss = Zero
    /\ loss_terms = << >>

InitLoss == TrainOff /\ EnsOff /\ ValOff /\ ThrOff /\ LossInit /\ PairOff

\* GetLoss.forward, lines 276-281: the sigmoid, loss = 0, the test of
\* self.loss_weights
forward_begin ==
    /\ loss_pc = "call"
    /\ input' = IF sigmoid_flag
                THEN [n \in 1..Len(input) |-> [p \in Pixels |-> sigmoid(input[n][p])]]
                ELSE input
    /\ loss' = Zero
    /\ loss_pc' = IF Ambiguous(loss_weights) THEN "raised" ELSE "loop"
    /\ UNCHANGED << target, sigmoid_flag, loss_funs, loss_weights, loss_index, loss_terms >>
    /\ UNCHANGED << trainVars, ensVars, valVars, thrVars, pairVars >>

\* GetLoss.forward, lines 285-289: one loss_fun of the list, in the weighted
\* or in the plain loop
forward_term ==
    /\ loss_pc = "loop"
    /\ loss_index < Len(loss_funs)
    /\ LET f == loss_funs[loss_index + 1]
           weighted == Truth(loss_weights)
       IN IF (weighted /\ loss_index + 1 > Len(loss_weights)) \/ Raises(f)
          THEN /\ loss_pc' = "raised"
               /\ UNCHANGED << loss, loss_terms, loss_index >>
          ELSE LET term == loss_fun(f, input, sigmoid_flag, target)
               IN /\ loss' = FAdd(loss, IF weighted
                                        THEN FMul(Rat(loss_weights[loss_index + 1], 1), term)
                                        ELSE term)
                  /\ loss_terms' = Append(loss_terms, term)
                  /\ loss_index' = loss_index + 1
                  /\ loss_pc' = "loop"
    /\ UNCHANGED << input, target, sigmoid_flag, loss_funs, loss_weights >>
    /\ UNCHANGED << trainVars, ensVars, valVars, thrVars, pairVars >>

\* GetLoss.forward, line 291: return loss
forward_return ==
    /\ loss_pc = "loop"
    /\ loss_index = Len(loss_funs)
    /\ loss_pc' = "done"
    /\ UNCHANGED << input, target, sigmoid_flag, loss_funs, loss_weights, loss_index,
                    loss, loss_terms >>
    /\ UNCHANGED << trainVars, ensVars, valVars, thrVars, pairVars >>

NextLoss ==
    \/ forward_begin
    \/ forward_term
    \/ forward_return

SpecLoss == InitLoss /\ [][NextLoss]_vars

(***************************************************************************)
(* Claims about the trainer.                                               *)
(***************************************************************************)
RECURSIVE MaxOf(_)
MaxOf(sq) == IF Len(sq) = 1 THEN sq[1]
             ELSE LET m == MaxOf(Tail(sq)) IN IF sq[1] > m THEN sq[1] ELSE m

\* an epoch of the current call has been trained, validated and checkpointed
EpochSaved == pc \in {"epoch", "idle"} /\ Len(seen) >= 1

\* the current call entered its epoch loop at epoch 0: seen holds the Dice
\* of every epoch of the (model_type, stage, fold) run
RunFromEpoch0 == sched.T = epoch_stage(CurStage)

\* C1: after N >= 1 epochs of a run of train or train_stage2 (from epoch 0,
\* some epoch with a Dice above 0), the best file of the run's (model_type,
\* stage, fold) exists and its max_dice is the maximum of the validation
\* Dice values of the run's epochs.
C1_BestHoldsMaxOfRun ==
    (EpochSaved /\ RunFromEpoch0 /\ MaxOf(seen) > 0)
        => /\ IsCheckpoint(fs[BestName(CurStage)])
           /\ fs[BestName(CurStage)].max_dice = MaxOf(seen)

\* C2: when the epoch just checkpointed has a Dice above that of every
\* earlier epoch of its (model_type, stage, fold) run (and above 0), it is
\* the epoch the triple's best file holds, whatever Dice another stage saw.
C2_OwnBestEpochIsMarked ==
    (/\ EpochSaved
     /\ RunFromEpoch0
     /\ seen[Len(seen)] > 0
     /\ \A j \in 1..(Len(seen) - 1) : seen[j] < seen[Len(seen)])
        => /\ IsCheckpoint(fs[BestName(CurStage)])
           /\ fs[BestName(CurStage)].epoch = epoch

\* C3: the best file of a stage changes only in the copy step of
\* save_checkpoint, when the epoch's own file holds the complete checkpoint
\* of the current epoch; a failed checkpoint write leaves every best file
\* as it was.
C3_BestOnlyAfterFullWrite ==
    [][ /\ \A s \in Stages :
            fs'[BestName(s)] # fs[BestName(s)]
                => /\ pc = "save_copy"
                   /\ s = CurStage
                   /\ IsCheckpoint(fs[LatestName(s)])
                   /\ fs[LatestName(s)] = state
                   /\ state.epoch = epoch
        /\ (pc = "save" /\ pc' = "error")
                => \A s \in Stages : fs'[BestName(s)] = fs[BestName(s)]
      ]_vars

\* C3 witness: the write of a best epoch failed (its file is cut short)
\* while the best file still holds the complete checkpoint of an earlier
\* epoch of the stage.
C3_Witness ==
    /\ pc = "error"
    /\ is_best
    /\ fs[LatestName(CurStage)] = Partial
    /\ IsCheckpoint(fs[BestName(CurStage)])
    /\ fs[BestName(CurStage)].epoch < epoch

\* C4 (as claimed): a checkpoint file, once written, is never changed by a
\* later successful step.
C4_WrittenFileImmutable ==
    [][ pc' # "error"
            => \A f \in FileNames : IsCheckpoint(fs[f]) => fs'[f] = fs[f] ]_vars

\* C4 (amended): every epoch's checkpoint is written to the one file
\* '<model_type>_<stage>_<fold>.pth' of the triple, overwriting the
\* checkpoint of the epoch before; the write changes no other file; marking
\* best copies that file to '<model_type>_<stage>_<fold>_best.pth' and
\* leaves it in place; nothing else changes a file; after every epoch the
\* triple's file holds that epoch's checkpoint.
C4_LatestOverwrittenBestCopied ==
    [][ /\ (pc = "save" /\ pc' # "error")
            => /\ IsCheckpoint(fs'[LatestName(CurStage)])
               /\ fs'[LatestName(CurStage)].epoch = epoch
               /\ \A f \in FileNames \ {LatestName(CurStage)} : fs'[f] = fs[f]
        /\ (pc = "save_copy" /\ pc' # "error")
            => /\ IsCheckpoint(fs'[LatestName(CurStage)])
               /\ fs'[LatestName(CurStage)] = fs[LatestName(CurStage)]
               /\ fs'[BestName(CurStage)] = fs'[LatestName(CurStage)]
               /\ \A f \in FileNames \ {BestName(CurStage)} : fs'[f] = fs[f]
        /\ (fs' # fs) => pc \in {"save", "save_copy"}
        /\ (pc \in {"save", "save_copy"} /\ pc' \in {"epoch", "idle"})
            => /\ IsCheckpoint(fs'[LatestName(CurStage)])
               /\ fs'[LatestName(CurStage)].epoch = epoch
      ]_vars

\* C4 witness: the second epoch's checkpoint has overwritten the first's in
\* the triple's file, and the best file is still the copy of the first.
C4_Witness ==
    /\ pc \in {"epoch", "idle"}
    /\ IsCheckpoint(fs[LatestName(CurStage)])
    /\ fs[LatestName(CurStage)].epoch = 2
    /\ IsCheckpoint(fs[BestName(CurStage)])
    /\ fs[BestName(CurStage)].epoch = 1

\* C10: a call of train or train_stage2 with a resume requested whose path
\* does not exist raises before any epoch runs, and leaves start_epoch,
\* max_dice, lr and the files unchanged.
C10_MissingResumeRaises ==
    [][ (/\ called' # called
         /\ called' # << >>
         /\ resume # NoResume
         /\ fs[resume] = NoFile)
            => /\ pc' = "error"
               /\ UNCHANGED << start_epoch, max_dice, lr, fs >>
      ]_vars

\* the epoch numbers a+1, ..., b in order
EpochsAfter(a, b) == [j \in 1..(b - a) |-> a + j]

\* C11: a call of train or train_stage2 that is given as resume a checkpoint
\* of its own stage, written after epoch s, begins the epochs s+1, s+2, ...
\* in order, once each; when it returns it has run exactly s+1..E, and the
\* stage's checkpoint file holds epoch E.
C11_ResumeRunsRemainingEpochs ==
    resumed_at # -1
        => LET E == epoch_stage(CurStage)
               due == EpochsAfter(resumed_at, E)
           IN /\ Len(ran) <= Len(due)
              /\ ran = SubSeq(due, 1, Len(ran))
              /\ pc = "idle"
                    => /\ ran = due
                       /\ IF resumed_at < E
                          THEN /\ IsCheckpoint(fs[LatestName(CurStage)])
                               /\ fs[LatestName(CurStage)].epoch = E
                          ELSE resumed_at = E

\* the rate a run of stage stg that was never interrupted records at epoch e
UninterruptedLr(stg, e) ==
    get_lr([base |-> ConfiguredLr(stg), T |-> epoch_stage(stg), t |-> e - 1])

\* C12: a call that resumed its stage from a checkpoint records at the last
\* epoch E of the stage the same learning rate as a run of the stage that
\* was never interrupted records at epoch E.
C12_ResumedLrMatchesUninterrupted ==
    (/\ pc = "save"
     /\ resumed_at # -1
     /\ epoch = epoch_stage(CurStage))
        => SameRate(lr, UninterruptedLr(CurStage, epoch))

\* C13: a call of train_stage2 whose resume is a stage-1 checkpoint of the
\* model and fold takes the weights of the checkpoint and nothing else: the
\* optimizer is the new Adam(lr_stage2), the schedule starts from lr_stage2,
\* the epoch counter is 0, and max_dice and lr are what they were before
\* the call.
C13_Stage1ResumeTakesOnlyWeights ==
    [][ (/\ called' = Append(called, 2)
         /\ resume \in {LatestName(1), BestName(1)}
         /\ IsCheckpoint(fs[resume]))
            => /\ pc' # "error"
               /\ unet' = fs[resume].state_dict
               /\ optimizer' = Adam(lr_stage2)
               /\ sched'.base = lr_stage2
               /\ start_epoch' = 0
               /\ epoch' = 0
               /\ lr' = lr
               /\ max_dice' = max_dice
      ]_vars

\* C14: for every model type, a call of train_stage2 whose resume is a
\* checkpoint save_checkpoint wrote for stage 2 of the model and fold (the
\* epoch's file or its best copy) loads the weights, the optimizer state
\* and the epoch counter of the checkpoint and enters the loop at the stored
\* epoch; one whose resume is a checkpoint written for stage 1 loads the
\* weights only and enters the loop at epoch 0 with the new optimizer.
C14_ResumeNameRecognised ==
    [][ (called' = Append(called, 2) /\ resume # NoResume /\ IsCheckpoint(fs[resume]))
            => /\ pc' # "error"
               /\ unet' = fs[resume].state_dict
               /\ resume \in {LatestName(2), BestName(2)}
                    => /\ optimizer'.steps = fs[resume].optimizer.steps
                       /\ start_epoch' = fs[resume].epoch
                       /\ epoch' = fs[resume].epoch
               /\ resume \in {LatestName(1), BestName(1)}
                    => /\ optimizer' = Adam(lr_stage2)
                       /\ start_epoch' = 0
                       /\ epoch' = 0
      ]_vars

\* C15: with E = epoch_stage2 and K = epoch_stage2_accumulation, a batch of
\* a stage-2 epoch above E - K (one of the final K epochs) takes the
\* accumulation path: its gradient is added to the buffer and the optimizer
\* steps only at every accumulation_steps-th batch; a batch of any other
\* stage-2 epoch, and of every stage-1 epoch, steps the optimizer once on
\* its own gradient.  Resumed runs included.
C15_AccumulationInFinalEpochs ==
    [][ (pc = "batch" /\ i' = i + 1)
            => IF CurStage = 2 /\ epoch > epoch_stage2 - epoch_stage2_accumulation
               THEN IF (i + 1) % accumulation_steps = 0
                    THEN optimizer'.steps = optimizer.steps + 1 /\ grad' = {}
                    ELSE optimizer'.steps = optimizer.steps
                            /\ grad' = grad \cup { <<epoch, i>> }
               ELSE /\ optimizer'.steps = optimizer.steps + 1
                    /\ grad' = { <<epoch, i>> }
      ]_vars

\* C15 witness: a stage-2 call resumed at epoch 1 of 2 with K = 1 is in
\* epoch 2, whose first batch was accumulated without an optimizer step.
C15_Witness ==
    /\ pc = "batch"
    /\ CurStage = 2
    /\ resumed_at = 1
    /\ start_epoch = 1
    /\ epoch_stage2_accumulation = 1
    /\ epoch = 2
    /\ i = 1
    /\ grad = { <<2, 0>> }
    /\ optimizer.steps = fs[resume].optimizer.steps

\* the batches whose gradients the optimizer step of the current batch
\* applies: the buffer and the batch's own gradient on the accumulation
\* path, the batch's own gradient after reset_grad() otherwise
Applied == IF accumulating THEN grad \cup { <<epoch, i>> } ELSE { <<epoch, i>> }

\* C16: every optimizer step of an accumulation-path epoch applies the
\* gradients of exactly accumulation_steps consecutive batches of the
\* current epoch; the buffer is empty when the first batch of a stage-2
\* epoch starts; no optimizer step applies a gradient of an earlier epoch.
C16_WindowsWithinEpoch ==
    [][ /\ (pc' = "batch" /\ i' = 0 /\ CurStage = 2) => grad' = {}
        /\ (pc = "batch" /\ optimizer'.steps = optimizer.steps + 1)
            => /\ \A b \in Applied : b[1] = epoch
               /\ accumulating
                    => Applied = { <<epoch, j>> : j \in (i + 1 - accumulation_steps)..i }
      ]_vars

\* C16 witness: stage 2 followed stage 1 on one object; its epoch 1 took the
\* standard path and its epoch 2 (K = 1) has just applied a full window.
C16_Witness ==
    /\ pc = "validate"
    /\ called = << 1, 2 >>
    /\ epoch_stage2_accumulation = 1
    /\ ran = << 1, 2 >>
    /\ epoch = 2
    /\ grad = {}

\* the file save_checkpoint writes for the stage of the running call
Latest == fs[LatestName(CurStage)]

\* one step of an epoch, in the order of the loop body: the batches one by
\* one, then the validation, then the checkpoint of this epoch; no file
\* changes outside save_checkpoint
EpochOrder ==
    /\ fs' # fs => pc \in {"save", "save_copy"}
    /\ pc = "batch" => /\ i' = i + 1
                       /\ pc' = IF i' = len_train_loader THEN "validate" ELSE "batch"
    /\ pc = "validate" => /\ i = len_train_loader
                          /\ pc' = "save"
                          /\ state'.epoch = epoch
    /\ pc = "save" => /\ i = len_train_loader
                      /\ state.epoch = epoch
                      /\ pc' \in {"save_copy", "epoch", "idle", "error"}
                      /\ pc' # "error" => fs'[LatestName(CurStage)] = state
    /\ pc = "save_copy" => /\ pc' \in {"epoch", "idle", "error"}
                           /\ fs'[LatestName(CurStage)] = fs[LatestName(CurStage)]

\* once the running call has checkpointed an epoch, the epoch field of the
\* stage's file is the number of the last epoch that ran to its checkpoint:
\* the epoch before the one in progress, the epoch itself once written
LatestIsLastCompleted ==
    /\ (ran # << >> /\ pc \in {"epoch", "idle", "save_copy"})
          => IsCheckpoint(Latest) /\ Latest.epoch = epoch
    /\ (Len(ran) >= 2 /\ pc \in {"batch", "validate", "save"})
          => IsCheckpoint(Latest) /\ Latest.epoch = epoch - 1
    /\ (Len(ran) >= 2 /\ pc = "error" /\ IsCheckpoint(Latest))
          => Latest.epoch \in {epoch - 1, epoch}

Leftover(n) == { <<epoch, j>> : j \in (n - (n % accumulation_steps))..(n - 1) }

\* within and after an accumulating epoch of the running call, the optimizer
\* has stepped floor(i / accumulation_steps) times in the epoch and the
\* buffer holds the gradients of the batches after the last step
StepsOfAccumulatingEpoch ==
    (/\ ran # << >>
     /\ pc \in {"batch", "validate", "save", "save_copy", "epoch", "idle"}
     /\ accumulating)
        => /\ steps_in_epoch = i \div accumulation_steps
           /\ grad = Leftover(i)
           /\ pc # "batch" => i = len_train_loader

\* the optimizer steps only in a batch; the head of the next stage-2 epoch
\* clears the buffer without a step
LeftoverIsDropped ==
    /\ (pc \in {"epoch", "validate", "save", "save_copy"} /\ pc' # "new")
          => optimizer'.steps = optimizer.steps /\ unet' = unet
    /\ (pc = "epoch" /\ CurStage = 2) => grad' = {}

\* C27: in an accumulation-path epoch with n batches the optimizer steps
\* floor(n / accumulation_steps) times; the gradients of the last n mod
\* accumulation_steps batches are never applied: the head of the next epoch
\* clears them, and after the last epoch they stay in the buffer.
C27_StepsAreFloorOfBatches == [](StepsOfAccumulatingEpoch) /\ [][LeftoverIsDropped]_vars

\* C27 witness: stage 2 of two accumulating epochs of one batch each has
\* returned without any optimizer step; the gradient of the last batch is
\* still in the buffer.
C27_Witness ==
    /\ pc = "idle"
    /\ called = << 2 >>
    /\ resume = NoResume
    /\ epoch_stage2_accumulation = 2
    /\ len_train_loader = 1
    /\ ran = << 1, 2 >>
    /\ grad = { <<2, 0>> }
    /\ optimizer.steps = 0
    /\ unet = W0

\* C28: when train_stage2 is called on the object that train has just
\* returned on, the first stage-2 epoch starts from the weights the last
\* stage-1 epoch left, also when resume names a stage-1 checkpoint.
C28_Stage2StartsFromStage1Weights ==
    [][ (/\ pc = "idle"
         /\ called = << 1 >>
         /\ called' = << 1, 2 >>
         /\ resume \in {NoResume, LatestName(1), BestName(1)}
         /\ pc' # "error")
            => unet' = unet
      ]_vars

(***************************************************************************)
(* Claims about the ensemble.                                              *)
(***************************************************************************)
\* the image's accumulator has been fused
Fused(im) == final[im] # NoMask

\* the number of folds that added 1 at pixel p of image im
votes(im, p) == Cardinality({ j \in 1..Len(contribs[im]) : contribs[im][j][p] = 1 })

RECURSIVE SumContribs(_, _, _)
\* the sum of what the first n folds added at pixel p of image im
SumContribs(im, p, n) ==
    IF n = 0 THEN 0 ELSE contribs[im][n][p] + SumContribs(im, p, n - 1)

\* C5 (as claimed): in vote fusion over 5 folds, a pixel that exactly 3
\* folds mark positive is negative in the final mask.
C5_ThreeOfFiveIsNegative ==
    \A im \in DOMAIN final : \A p \in Pixels :
        (~seg_average_vote /\ Len(n_splits) = 5 /\ Fused(im) /\ votes(im, p) = 3)
            => final[im][p] = 0

\* C5 (amended): in vote fusion over 5 folds vote_ticket is round(2.5) = 2
\* (Python 3 rounds a half to the even neighbour); a pixel that exactly 3
\* folds mark positive is positive in the final mask, and a pixel that
\* exactly 2 folds mark positive is negative.
C5_ThreeOfFiveIsPositive ==
    \A im \in DOMAIN final : \A p \in Pixels :
        (~seg_average_vote /\ Len(n_splits) = 5 /\ Fused(im))
            => /\ vote_ticket = 2
               /\ votes(im, p) = 3 => final[im][p] = 1
               /\ votes(im, p) = 2 => final[im][p] = 0

\* C5 witness: 5 folds voted, exactly 3 of them for pixel 1, and the image
\* is fused.
C5_Witness ==
    /\ ~seg_average_vote
    /\ Len(n_splits) = 5
    /\ Fused(1)
    /\ votes(1, 1) = 3

\* C6: in vote mode, for every fold count K and every pixel, the final mask
\* is 1 exactly when the vote count is above round(K/2), and exactly when
\* more than half of the K folds voted positive.
C6_VoteIsStrictMajority ==
    \A im \in DOMAIN final : \A p \in Pixels :
        (~seg_average_vote /\ Fused(im))
            => /\ final[im][p] = 1 <=> votes(im, p) > vote_ticket
               /\ final[im][p] = 1 <=> 2 * votes(im, p) > Len(n_splits)

\* C7: in average mode every requested fold has added one contribution for
\* the image, and a pixel of the final mask is 1 exactly when the sum of
\* the K contributions divided by K is above average_threshold (in tenths:
\* sum > average_threshold * K).
C7_AverageRule ==
    \A im \in DOMAIN final : \A p \in Pixels :
        (seg_average_vote /\ Fused(im))
            => /\ Len(contribs[im]) = Len(n_splits)
               /\ final[im][p] = 1
                    <=> SumContribs(im, p, Len(n_splits)) > average_threshold * Len(n_splits)

\* C7 witness: the contributions 0.9, 0.9, 0.1, 0.1, 0.1 at pixel 1 (mean
\* 0.42) are fused to a negative pixel.
C7_Witness ==
    /\ seg_average_vote
    /\ Fused(1)
    /\ Len(contribs[1]) = 5
    /\ [j \in 1..5 |-> contribs[1][j][1]] = << 9, 9, 1, 1, 1 >>
    /\ final[1][1] = 0

\* C8: a (fold, image) whose binarized classification prediction has fewer
\* positive pixels than less_than_sum[fold], or none, has added an all-zero
\* mask, and the segmentation model was not run on it.
C8_ClosedGateAddsZero ==
    \A fi \in gate_closed :
        /\ fi \notin seg_invoked
        /\ Len(contribs[fi[2]]) >= fi[1] + 1
        /\ contribs[fi[2]][fi[1] + 1] = ZeroMask

\* C8 witness: the gate closed for fold 1 of image 1 (less_than_sum[1] is
\* 2) while fold 0 of the image went through the segmentation model, and
\* the run has ended.
C8_Witness ==
    /\ <<1, 1>> \in gate_closed
    /\ less_than_sum[1] = 2
    /\ <<0, 1>> \in seg_invoked
    /\ ens_pc = "done"

\* C9: when a weight file of a requested fold is missing, the run ends in
\* the error at that fold: only the folds before it have added to an
\* accumulator, no image is fused and no submission file is written.
C9_MissingWeightAborts ==
    missing # NoMissing
        => /\ ens_pc \notin {"fuse", "done"}
           /\ ~submission_written
           /\ \A im \in DOMAIN final : ~Fused(im) /\ Len(contribs[im]) <= missing[2]
           /\ k <= missing[2] + 1
           /\ (k = missing[2] + 1) => ens_pc \in {"load", "error"}

\* C9 witness: create_submission has raised at the load of the third fold,
\* after two folds had been accumulated.
C9_Witness ==
    /\ driver = "create_submission"
    /\ ens_pc = "error"
    /\ missing = << "seg", 2 >>
    /\ Len(contribs[1]) = 2

\* the fold at position j of n_splits has added its contribution for image im,
\* and the binarized classification prediction it made was not below
\* less_than_sum[fold]: gate_closed holds the pairs whose count was below
\* less_than_sum[fold] or 0, and a count below 0 does not exist
NotBelow(im, j) ==
    /\ j <= Len(contribs[im])
    /\ << n_splits[j], im >> \notin gate_closed \/ less_than_sum[n_splits[j]] = 0

BothEmpty(n) == net_output_flat_sign[n] = ZeroMask /\ masks_flat[n] = ZeroMask

\* C17: for a sample whose prediction and ground truth are both all-zero,
\* dice_overall returns exactly 1 (2 * 1 / 2); the mean over a batch of
\* such samples, which demo_on_val's dice_overall returns, is exactly 1.
C17_EmptyPairIsOne ==
    val_i > 0
        => /\ \A n \in 1..BatchSize : BothEmpty(n) => dice_samples[n] = One
           /\ (\A n \in 1..BatchSize : BothEmpty(n)) => dice = One

\* C17 witness: a batch whose first sample is empty on both sides and whose
\* second sample is a prediction that misses a non-empty ground truth.
C17_Witness ==
    /\ val_i > 0
    /\ BothEmpty(1)
    /\ net_output_flat_sign[2] = ZeroMask
    /\ masks_flat[2] # ZeroMask
    /\ dice_samples = << One, Zero >>

\* C18: what dice_overall returned for the batch (P, T) is what it returns
\* for (T, P), sample by sample.
C18_DiceSymmetric ==
    val_i > 0 => dice_samples = dice_overall(masks_flat, net_output_flat_sign)

\* C18 witness: a batch with a sample whose prediction has more pixels than
\* its ground truth, overlapping it, and a sample empty on both sides.
C18_Witness ==
    /\ val_i > 0
    /\ VecSum(net_output_flat_sign[1]) = 2
    /\ VecSum(masks_flat[1]) = 1
    /\ dice_samples[1] = << 2, 3 >>
    /\ BothEmpty(2)

\* 0 <= x <= 1
InUnit(x) == RatLeq(Zero, x) /\ RatLeq(x, One)

\* C19: every per-sample value dice_overall returns is between 0 and 1, and
\* so are the mean over a batch and the mean over the validation batches.
C19_DiceInUnitInterval ==
    /\ \A n \in DOMAIN dice_samples : InUnit(dice_samples[n])
    /\ InUnit(dice)
    /\ InUnit(val_dice_mean)
    /\ RatLeq(Zero, dice_sum) /\ RatLeq(dice_sum, << val_i, 1 >>)

\* C19 witness: validation has returned a mean Dice strictly between 0 and
\* 1; the last batch had a sample with Dice 1 and a sample with Dice 0.
C19_Witness ==
    /\ val_pc = "done"
    /\ val_dice_mean # Zero
    /\ val_dice_mean # One
    /\ dice_samples = << One, Zero >>

\* C20 (as claimed): for every validation set whose mean Dice rises to a
\* peak at 0.63 and falls after it, the coarse phase selects 0.6 or 0.7 and
\* the fine phase returns a threshold within 0.01 of 0.63.
C20_FineWithinOneOfPeak ==
    thr_pc = "done"
        => /\ best_thrs_ \in {60, 70}
           /\ best_thrs \in 62..64

\* C20 (amended): the coarse phase selects 0.6 or 0.7, and 0.7 exactly when
\* the mean Dice at 0.7 is above that at 0.6; after 0.6 the fine phase
\* returns 0.63 with the peak's score; after 0.7 its list starts at 0.65
\* and it returns 0.65, which is 0.02 above the peak, with a lower score.
C20_FineFindsPeakUnlessCoarseIsAbove ==
    thr_pc = "done"
        => /\ best_thrs_ \in {60, 70}
           /\ best_thrs_ = 70 <=> MeanDice(70) > MeanDice(60)
           /\ best_thrs_ = 60 => best_thrs = 63 /\ score = MeanDice(63)
           /\ best_thrs_ = 70 => best_thrs = 65 /\ score < MeanDice(63)

\* C20 witness: on a validation set whose mean Dice rises steeply to the
\* peak and falls slowly after it, the coarse phase has selected 0.7 and
\* the fine phase has returned 0.65.
C20_Witness ==
    /\ thr_pc = "done"
    /\ rise > fall
    /\ best_thrs_ = 70
    /\ best_thrs = 65

\* the best mean Dice of the coarse phase, dices_.max()
Phase1Best == dices_[argmax(dices_)]

\* what the two phases of the search find on the validation set (r, f)
CoarseScores(r, f) == [j \in 1..Len(thrs_) |-> Curve(r, f, thrs_[j])]
FineScores(r, f) ==
    LET t0 == thrs_[argmax(CoarseScores(r, f))]
    IN [j \in 1..Len(thrs(t0)) |-> Curve(r, f, thrs(t0)[j])]

UniformTarget ==
    \E c \in {0, 1} : \A n \in 1..Len(target) : \A p \in Pixels : target[n][p] = c

\* C22: for a target batch that is all-zero or all-one, every loss strategy
\* returns a finite value (no mean is taken over an empty selection of pixels)
C22_FiniteOnUniformTarget ==
    UniformTarget => \A j \in 1..Len(loss_terms) : IsFinite(loss_terms[j])

\* sum_i w_i * ts[i] over the first n terms, w_i = 1 when no weights are given
RECURSIVE LinearCombination(_, _, _)
LinearCombination(ws, ts, n) ==
    IF n = 0 THEN Zero
    ELSE FAdd(LinearCombination(ws, ts, n - 1),
              IF ws = NoWeights THEN ts[n] ELSE FMul(Rat(ws[n], 1), ts[n]))

\* C23: for a list of n >= 1 loss strategies and an optional list of n
\* weights, GetLoss.forward does not raise and returns sum_i w_i * loss_i
\* (w_i = 1 without weights), whatever the number and the values of the
\* weights
C23_ForwardIsLinearCombination ==
    (/\ loss_pc # "off"
     /\ loss_weights = NoWeights \/ Len(loss_weights) = Len(loss_funs)
     /\ \A j \in 1..Len(loss_funs) : ~Raises(loss_funs[j]))
    => /\ loss_pc # "raised"
       /\ loss_pc = "done" =>
             loss = LinearCombination(loss_weights, loss_terms, Len(loss_funs))
====
